---- MODULE Spec2Model ----
(***************************************************************************)
(* News summarizer, "WEEK 2/Day 4": the multi-provider orchestration core. *)
(*   llm_providers.py  CostTracker, the two rate limiters, ask_openai,     *)
(*                     ask_cohere, ask_with_fallback                       *)
(*   summarizer.py     summarize_article, process_articles,                *)
(*                     process_articles_async                              *)
(*                                                                         *)
(* Money is counted in units of 2.5e-9 dollars, so that every per-token    *)
(* price of PRICING is a whole number (0.0375 $/M tokens = 15 units per    *)
(* token) and the arithmetic of track_request is exact.  Time is counted   *)
(* in ticks of 60/OPENAI_RPM seconds.  A text is a string and its token    *)
(* count is its length.                                                    *)
(***************************************************************************)
EXTENDS Integers, Sequences, FiniteSets, TLC

\* ---------------------------------------------------------------- bounds
NumTasks == 2        \* calls of ask_with_fallback / articles of a batch
MaxRequests == 3     \* direct calls of track_request on a bare CostTracker
BatchQuantum == 10   \* ticks by which the clock advances during a batch
MaxFetches == 3      \* calls of fetch_top_headlines on one NewsAPI

Tasks == 1..NumTasks

\* --------------------------------------------------------- config.py
OPENAI_MODEL == "gpt-4o-mini"
COHERE_MODEL == "command-r7b-12-2024"
OPENAI_RPM == 500
COHERE_MODEL_RPM == 50
NEWS_API_RPM == 100

\* DAILY_BUDGET is read from the environment: the values the model tries.
Budgets == {1000, 4000}

Providers == {"openai", "cohere"}

ModelOf(p) == IF p = "openai" THEN OPENAI_MODEL ELSE COHERE_MODEL

\* ---------------------------------------------------- llm_providers.py
\* PRICING.get(model, {"input": 3.0, "output": 15.0}), per token, in money units.
PRICING(model) ==
    CASE model = "gpt-4o-mini" -> [input |-> 60, output |-> 240]
      [] model = "gpt-4o" -> [input |-> 1000, output |-> 4000]
      [] model = "command-r7b-12-2024" -> [input |-> 15, output |-> 60]
      [] OTHER -> [input |-> 1200, output |-> 6000]

\* track_request, lines 25-28: the cost of one request.
Cost(model, input_tokens, output_tokens) ==
    LET pricing == PRICING(model)
        input_cost == input_tokens * pricing.input
        output_cost == output_tokens * pricing.output
    IN  input_cost + output_cost

\* track_request, line 30: self.total_cost += cost.
NewTotalOverwrites(total, cost) == cost

NewTotal(total, cost) == total + cost

\* track_request, lines 31-37: the entry appended to self.requests.
RequestEntry(provider, model, input_tokens, output_tokens) ==
    [provider |-> provider, model |-> model, input_tokens |-> input_tokens,
     output_tokens |-> output_tokens,
     cost |-> Cost(model, input_tokens, output_tokens)]

\* check_budget, line 56: the condition under which it raises.
BudgetRaises(total, daily_budget) == total >= daily_budget

\* check_budget, lines 59-60: reached only when it does not raise.
percent_used(total, daily_budget) == (total * 100) \div daily_budget

BudgetWarnsAt95(total, daily_budget) ==
    /\ ~BudgetRaises(total, daily_budget)
    /\ percent_used(total, daily_budget) >= 95

BudgetWarns(total, daily_budget) ==
    /\ ~BudgetRaises(total, daily_budget)
    /\ percent_used(total, daily_budget) >= 90

\* count_tokens: the tokenizer is external; a model text has one token per character.
count_tokens(text) == Len(text)

\* __init__, lines 83-84: 60.0 / RPM seconds, in ticks of 60 / OPENAI_RPM seconds.
TickRate == OPENAI_RPM
openai_interval == TickRate \div OPENAI_RPM
cohere_interval == TickRate \div COHERE_MODEL_RPM
Interval(p) == IF p = "openai" THEN openai_interval ELSE cohere_interval

\* news_api.py, line 13: NewsAPI.min_interval, in the same ticks.
min_interval == TickRate \div NEWS_API_RPM

\* _wait_openai / _wait_cohere, lines 88-90: how long the caller sleeps.
SleepTimeOneShort(el, interval) == IF el < interval THEN interval - el - 1 ELSE 0

SleepTime(el, interval) == IF el < interval THEN interval - el ELSE 0

Other(p) == IF p = "openai" THEN "cohere" ELSE "openai"

RECURSIVE SumField(_, _)
SumField(reqs, f) ==
    IF reqs = <<>> THEN 0 ELSE reqs[1][f] + SumField(Tail(reqs), f)

Max(a, b) == IF a >= b THEN a ELSE b
Min(a, b) == IF a <= b THEN a ELSE b

\* ------------------------------------------------------------- state
VARIABLES
    \* CostTracker
    total_cost,       \* self.total_cost
    requests,         \* self.requests
    \* Config and LLMProviders
    daily_budget,     \* Config.DAILY_BUDGET
    elapsed,          \* per provider: time.time() - self.<p>_last_call, capped at the interval
    quantum,          \* ticks by which the clock is seen to advance
    \* one caller (a request of ask_with_fallback, or an article's summarize_article)
    pc,               \* where the caller stands
    phase,            \* which call site of ask_openai / ask_cohere it is in
    prov,             \* the provider of the ask_* it is in
    prompt,           \* the prompt of the ask_* it is in
    rem,              \* ticks left of its time.sleep
    input_tokens,     \* ask_*: input_tokens
    output_text,      \* ask_*: output_text
    loaded,           \* track_request: self.total_cost as read by "+="
    primary,          \* ask_with_fallback: primary
    e,                \* ask_with_fallback: e of "except Exception as e"
    result,           \* what the caller returned, or the exception it raised
    summary,          \* summarize_article: summary
    \* batch
    mode,             \* "serial" (process_articles) or "async" (process_articles_async)
    max_concurrent,   \* process_articles_async: max_concurrent
    semaphore,        \* asyncio.Semaphore: its value
    gathered,         \* asyncio.gather: the slot of each task
    results,          \* the list the batch builds
    returned,         \* the batch has returned it
    \* NewsAPI: where fetch_top_headlines stands (pc), time.time() - self.last_call_time
    \* capped at min_interval (elapsed), ticks left of its sleep (rem), calls made (calls)
    news,
    \* what a direct call on the CostTracker or the NewsAPI did
    op,
    \* history
    asked,            \* per caller: the ask_* calls it entered, in order
    received,         \* per caller: the responses its API calls returned
    tracked           \* number of track_request calls entered

trackerVars == <<total_cost, requests>>
configVars == <<daily_budget, quantum>>
askVars == <<pc, phase, prov, prompt, rem, input_tokens, output_text, loaded>>
callerVars == <<primary, e, result, summary>>
batchVars == <<mode, max_concurrent, semaphore, gathered, results, returned>>
historyVars == <<asked, received, tracked>>
vars == <<trackerVars, configVars, news, elapsed, askVars, callerVars, batchVars, op, historyVars>>

NoText == ""
NoOp == [name |-> "none", n |-> 0]

\* CostTracker.__init__ and LLMProviders.__init__; every caller idle.
InitObjects ==
    /\ total_cost = 0
    /\ requests = <<>>
    /\ daily_budget \in Budgets
    /\ elapsed = [p \in Providers |-> Interval(p)]
    /\ pc = [t \in Tasks |-> "idle"]
    /\ phase = [t \in Tasks |-> "none"]
    /\ prov = [t \in Tasks |-> "none"]
    /\ prompt = [t \in Tasks |-> NoText]
    /\ rem = [t \in Tasks |-> 0]
    /\ input_tokens = [t \in Tasks |-> 0]
    /\ output_text = [t \in Tasks |-> NoText]
    /\ loaded = [t \in Tasks |-> 0]
    /\ primary = [t \in Tasks |-> "none"]
    /\ e = [t \in Tasks |-> "none"]
    /\ result = [t \in Tasks |-> [kind |-> "none"]]
    /\ summary = [t \in Tasks |-> NoText]
    /\ gathered = [t \in Tasks |-> [kind |-> "none"]]
    /\ results = <<>>
    /\ returned = FALSE
    /\ news = [pc |-> "idle", elapsed |-> min_interval, rem |-> 0, calls |-> 0]
    /\ op = NoOp
    /\ asked = [t \in Tasks |-> <<>>]
    /\ received = [t \in Tasks |-> 0]
    /\ tracked = 0

\* ------------------------------------------ direct calls on a CostTracker
TrackerModels == {<<"openai", "gpt-4o-mini">>, <<"cohere", "command-r7b-12-2024">>,
                  <<"openai", "some-other-model">>}
TokenChoices == {0, 2}
Ceilings == {0} \cup Budgets

InitTracker ==
    /\ InitObjects
    /\ quantum = 1
    /\ mode = "tracker"
    /\ max_concurrent = 0
    /\ semaphore = 0

\* CostTracker.track_request called by a single caller.
TrackRequest(provider, model, in_tok, out_tok) ==
    /\ Len(requests) < MaxRequests
    /\ total_cost' = NewTotal(total_cost, Cost(model, in_tok, out_tok))
    /\ requests' = Append(requests, RequestEntry(provider, model, in_tok, out_tok))
    /\ tracked' = tracked + 1
    /\ op' = [name |-> "track_request", n |-> 1 - op.n,
              ret |-> Cost(model, in_tok, out_tok)]
    /\ UNCHANGED <<configVars, news, elapsed, askVars, callerVars, batchVars,
                   asked, received>>

\* CostTracker.check_budget(ceiling) called directly.
CheckBudget(ceiling) ==
    /\ op' = [name |-> "check_budget", n |-> 1 - op.n, ceiling |-> ceiling,
              raised |-> BudgetRaises(total_cost, ceiling),
              warned |-> BudgetWarns(total_cost, ceiling)]
    /\ UNCHANGED <<trackerVars, configVars, news, elapsed, askVars, callerVars, batchVars,
                   asked, received, tracked>>

\* A get_summary that divides by the number of entries itself.
SummaryDividesByLen(total, reqs) ==
    [total_requests |-> Len(reqs),
     total_cost |-> total,
     total_input_tokens |-> SumField(reqs, "input_tokens"),
     total_output_tokens |-> SumField(reqs, "output_tokens"),
     average_cost |-> [num |-> total, den |-> Len(reqs)]]

\* CostTracker.get_summary; average_cost is the fraction num / den.
Summary(total, reqs) ==
    [total_requests |-> Len(reqs),
     total_cost |-> total,
     total_input_tokens |-> SumField(reqs, "input_tokens"),
     total_output_tokens |-> SumField(reqs, "output_tokens"),
     average_cost |-> [num |-> total, den |-> Max(Len(reqs), 1)]]

GetSummary ==
    /\ op' = [name |-> "get_summary", n |-> 1 - op.n, ret |-> Summary(total_cost, requests)]
    /\ UNCHANGED <<trackerVars, configVars, news, elapsed, askVars, callerVars, batchVars,
                   historyVars>>

NextTracker ==
    \/ \E pm \in TrackerModels, in_tok \in TokenChoices, out_tok \in TokenChoices :
          TrackRequest(pm[1], pm[2], in_tok, out_tok)
    \/ \E ceiling \in Ceilings : CheckBudget(ceiling)
    \/ GetSummary

SpecTracker == InitTracker /\ [][NextTracker]_vars

\* ------------------------------------- ask_openai / ask_cohere, step by step
\* What a provider's API may answer, and the prompts handed to ask_with_fallback.
Responses(p) == IF p = "openai" THEN {"ab"} ELSE {"abcd"}
Prompts == {"hi"}

\* The caller enters ask_openai or ask_cohere at call site ph.
EnterAsk(t, ph, p, text) ==
    /\ pc' = [pc EXCEPT ![t] = "wait"]
    /\ phase' = [phase EXCEPT ![t] = ph]
    /\ prov' = [prov EXCEPT ![t] = p]
    /\ prompt' = [prompt EXCEPT ![t] = text]
    /\ input_tokens' = [input_tokens EXCEPT ![t] = 0]
    /\ output_text' = [output_text EXCEPT ![t] = NoText]
    /\ asked' = [asked EXCEPT ![t] = Append(@, p)]
    /\ UNCHANGED <<rem, loaded>>

\* _wait_openai / _wait_cohere, lines 88-90 (95-97): read the clock and the last
\* call's timestamp, and go to sleep if the interval has not passed.
Wait(t) ==
    /\ pc[t] = "wait"
    /\ rem' = [rem EXCEPT ![t] = SleepTime(elapsed[prov[t]], Interval(prov[t]))]
    /\ pc' = [pc EXCEPT ![t] = "stamp"]
    /\ UNCHANGED <<trackerVars, configVars, news, elapsed, phase, prov, prompt, input_tokens,
                   output_text, loaded, callerVars, batchVars, op, historyVars>>

\* _wait_openai / _wait_cohere, line 91 (98): the sleep is over (time.sleep lasts
\* at least as long as asked); the grant is stamped: self.<p>_last_call = time.time().
Stamp(t) ==
    /\ pc[t] = "stamp"
    /\ rem[t] = 0
    /\ elapsed' = [elapsed EXCEPT ![prov[t]] = 0]
    /\ pc' = [pc EXCEPT ![t] = "call"]
    /\ UNCHANGED <<trackerVars, configVars, news, phase, prov, prompt, rem, input_tokens,
                   output_text, loaded, callerVars, batchVars, op,
                   asked, received, tracked>>

\* An ask_* that goes from the provider's answer straight to the budget check.
CallReturnsUntracked(t) ==
    /\ pc[t] = "call"
    /\ \E text \in Responses(prov[t]) :
          output_text' = [output_text EXCEPT ![t] = text]
    /\ input_tokens' = [input_tokens EXCEPT ![t] = count_tokens(prompt[t])]
    /\ received' = [received EXCEPT ![t] = @ + 1]
    /\ pc' = [pc EXCEPT ![t] = "check"]
    /\ UNCHANGED <<trackerVars, configVars, news, elapsed, phase, prov, prompt, rem, loaded,
                   callerVars, batchVars, op, asked, tracked>>

\* ask_openai, lines 107-115 (ask_cohere, 130-138): the prompt's tokens are counted
\* and the provider answers with a text.
CallReturns(t) ==
    /\ pc[t] = "call"
    /\ \E text \in Responses(prov[t]) :
          output_text' = [output_text EXCEPT ![t] = text]
    /\ input_tokens' = [input_tokens EXCEPT ![t] = count_tokens(prompt[t])]
    /\ received' = [received EXCEPT ![t] = @ + 1]
    /\ pc' = [pc EXCEPT ![t] = "track"]
    /\ UNCHANGED <<trackerVars, configVars, news, elapsed, phase, prov, prompt, rem, loaded,
                   callerVars, batchVars, op, asked, tracked>>

\* track_request, lines 25-30, as called at line 118 (141): the cost is computed
\* and "self.total_cost += cost" reads self.total_cost ...
TrackLoad(t) ==
    /\ pc[t] = "track"
    /\ loaded' = [loaded EXCEPT ![t] = total_cost]
    /\ tracked' = tracked + 1
    /\ pc' = [pc EXCEPT ![t] = "store"]
    /\ UNCHANGED <<trackerVars, configVars, news, elapsed, phase, prov, prompt, rem, input_tokens,
                   output_text, callerVars, batchVars, op, asked, received>>

\* A track_request that records nothing when the cost would reach the ceiling.
TrackStoreUnlessOver(t) ==
    /\ pc[t] = "store"
    /\ LET model == ModelOf(prov[t])
           out_tok == count_tokens(output_text[t])
           total == NewTotal(loaded[t], Cost(model, input_tokens[t], out_tok))
       IN  IF total >= daily_budget
             THEN UNCHANGED trackerVars
             ELSE /\ total_cost' = total
                  /\ requests' = Append(requests,
                                        RequestEntry(prov[t], model, input_tokens[t], out_tok))
    /\ loaded' = [loaded EXCEPT ![t] = 0]
    /\ pc' = [pc EXCEPT ![t] = "check"]
    /\ UNCHANGED <<configVars, news, elapsed, phase, prov, prompt, rem, input_tokens,
                   output_text, callerVars, batchVars, op, historyVars>>

\* ... and, lines 30-37, writes the sum back and appends the entry.
TrackStore(t) ==
    /\ pc[t] = "store"
    /\ LET model == ModelOf(prov[t])
           out_tok == count_tokens(output_text[t])
       IN  /\ total_cost' = NewTotal(loaded[t], Cost(model, input_tokens[t], out_tok))
           /\ requests' = Append(requests,
                                 RequestEntry(prov[t], model, input_tokens[t], out_tok))
    /\ loaded' = [loaded EXCEPT ![t] = 0]
    /\ pc' = [pc EXCEPT ![t] = "check"]
    /\ UNCHANGED <<configVars, news, elapsed, phase, prov, prompt, rem, input_tokens,
                   output_text, callerVars, batchVars, op, historyVars>>

\* How ask_openai / ask_cohere ends.  It raises x when the provider's call raises
\* (line 109 / 132) or when check_budget(Config.DAILY_BUDGET) does (line 119 / 142) ...
AskRaises(t, x) ==
    \/ /\ pc[t] = "call"
       /\ x = "api"
    \/ /\ pc[t] = "check"
       /\ BudgetRaises(total_cost, daily_budget)
       /\ x = "budget"

\* ... and returns output_text (line 121 / 144) when check_budget returns.
AskReturns(t) ==
    /\ pc[t] = "check"
    /\ ~BudgetRaises(total_cost, daily_budget)

\* The caller returns from (or raises out of) its outermost function to pc at.
Leave(t, at) ==
    /\ pc' = [pc EXCEPT ![t] = at]
    /\ phase' = [phase EXCEPT ![t] = "none"]
    /\ prov' = [prov EXCEPT ![t] = "none"]
    /\ prompt' = [prompt EXCEPT ![t] = NoText]
    /\ input_tokens' = [input_tokens EXCEPT ![t] = 0]
    /\ output_text' = [output_text EXCEPT ![t] = NoText]
    /\ UNCHANGED <<rem, loaded>>

\* Time passes, by the clock's quantum, while some caller sleeps or waits for a
\* provider's answer; the statements between take no time.
Tick ==
    /\ \E t \in Tasks : pc[t] \in {"stamp", "call"}
    /\ elapsed' = [p \in Providers |-> Min(elapsed[p] + quantum, Interval(p))]
    /\ rem' = [t \in Tasks |-> Max(rem[t] - quantum, 0)]
    /\ UNCHANGED <<trackerVars, configVars, news, pc, phase, prov, prompt, input_tokens,
                   output_text, loaded, callerVars, batchVars, op, historyVars>>

AskStep(t) ==
    \/ Wait(t)
    \/ Stamp(t)
    \/ CallReturns(t)
    \/ TrackLoad(t)
    \/ TrackStore(t)

\* ------------------------------------------------- ask_with_fallback
Finished(t) == pc[t] \in {"done", "failed"}

\* A single caller: a request starts when the one before it is over.
\* ask_with_fallback, lines 157-165: the primary provider is asked.
AskWithFallback(t, text, prim) ==
    /\ pc[t] = "idle"
    /\ \A u \in Tasks : u < t => Finished(u)
    /\ primary' = [primary EXCEPT ![t] = prim]
    /\ IF prim = "openai"
         THEN EnterAsk(t, "primary", "openai", text)
         ELSE EnterAsk(t, "primary", "cohere", text)
    /\ UNCHANGED <<trackerVars, configVars, news, elapsed, e, result, summary, batchVars, op,
                   received, tracked>>

\* lines 161, 165: the primary's answer is returned.
PrimaryReturns(t) ==
    /\ phase[t] = "primary"
    /\ AskReturns(t)
    /\ result' = [result EXCEPT ![t] =
          IF primary[t] = "openai"
            THEN [kind |-> "return", provider |-> "openai", response |-> output_text[t]]
            ELSE [kind |-> "return", provider |-> "cohere", response |-> output_text[t]]]
    /\ Leave(t, "done")
    /\ UNCHANGED <<trackerVars, configVars, news, elapsed, primary, e, summary, batchVars, op,
                   asked, received, tracked>>

\* A handler that asks the primary again.
SecondaryIsPrimary(prim) == prim

\* lines 172-176: the provider the handler falls back to.
Secondary(prim) == IF prim = "openai" THEN "cohere" ELSE "openai"

\* lines 167-177: "except Exception as e" catches whatever the primary's ask_*
\* raised, and the other provider is asked.
PrimaryRaises(t) ==
    /\ phase[t] = "primary"
    /\ \E x \in {"api", "budget"} :
          /\ AskRaises(t, x)
          /\ e' = [e EXCEPT ![t] = x]
    /\ EnterAsk(t, "secondary", Secondary(primary[t]), prompt[t])
    /\ UNCHANGED <<trackerVars, configVars, news, elapsed, primary, result, summary, batchVars, op,
                   received, tracked>>

\* lines 174, 177: the secondary's answer is returned.
SecondaryResultNamesPrimary(t) ==
    [kind |-> "return", provider |-> primary[t], response |-> output_text[t]]

SecondaryResult(t) ==
    IF primary[t] = "openai"
      THEN [kind |-> "return", provider |-> "cohere", response |-> output_text[t]]
      ELSE [kind |-> "return", provider |-> "openai", response |-> output_text[t]]

SecondaryReturns(t) ==
    /\ phase[t] = "secondary"
    /\ AskReturns(t)
    /\ result' = [result EXCEPT ![t] = SecondaryResult(t)]
    /\ Leave(t, "done")
    /\ UNCHANGED <<trackerVars, configVars, news, elapsed, primary, e, summary, batchVars, op,
                   asked, received, tracked>>

\* line 181: raise Exception("All providers failed"); e2 is dropped.
ReraisesSecondary(x) == [kind |-> "raise", message |-> x]

AllProvidersFailed(x) == [kind |-> "raise", message |-> "All providers failed"]

\* lines 179-181: the secondary raised too.
SecondaryRaises(t) ==
    /\ phase[t] = "secondary"
    /\ \E x \in {"api", "budget"} :
          /\ AskRaises(t, x)
          /\ result' = [result EXCEPT ![t] = AllProvidersFailed(x)]
    /\ Leave(t, "failed")
    /\ UNCHANGED <<trackerVars, configVars, news, elapsed, primary, e, summary, batchVars, op,
                   asked, received, tracked>>

Init ==
    /\ InitObjects
    /\ quantum = 1
    /\ mode = "fallback"
    /\ max_concurrent = 0
    /\ semaphore = 0

Next ==
    \/ \E t \in Tasks, text \in Prompts, prim \in Providers : AskWithFallback(t, text, prim)
    \/ \E t \in Tasks : AskStep(t)
    \/ \E t \in Tasks : PrimaryReturns(t)
    \/ \E t \in Tasks : PrimaryRaises(t)
    \/ \E t \in Tasks : SecondaryReturns(t)
    \/ \E t \in Tasks : SecondaryRaises(t)
    \/ Tick

Spec == Init /\ [][Next]_vars

\* -------------------------------------------------- summarize_article
\* The articles of the batch; an article's text stands for its title, description
\* and the first 500 characters of its content.
ArticleText(a) == IF a % 2 = 1 THEN "n" ELSE "nn"

\* lines 27-36 and 52-59: the two prompts.
SummaryPrompt(a) == "S:" \o ArticleText(a)
\* A sentiment prompt that leaves the summary out.
SentimentPromptWithoutSummary(text) == "A:"

SentimentPromptOf(text) == "A:" \o text

\* A placeholder that is not the program's.
EmptySentiment == ""

SENTIMENT_PLACEHOLDER == "Unable to analyze sentiment"

\* lines 24-38: the summary is asked of OpenAI.
SummarizeArticle(t) == EnterAsk(t, "summary", "openai", SummaryPrompt(t))

\* lines 38-39, 47-61: the summary came; its sentiment is asked of Cohere.
SummaryReturns(t) ==
    /\ phase[t] = "summary"
    /\ AskReturns(t)
    /\ summary' = [summary EXCEPT ![t] = output_text[t]]
    /\ EnterAsk(t, "sentiment", "cohere", SentimentPromptOf(output_text[t]))
    /\ UNCHANGED <<trackerVars, configVars, news, elapsed, primary, e, result, batchVars, op,
                   received, tracked>>

\* lines 41-45: ask_openai raised and the exception is caught as e; the same prompt
\* is asked of Cohere, outside any try.
SummaryRaises(t) ==
    /\ phase[t] = "summary"
    /\ \E x \in {"api", "budget"} :
          /\ AskRaises(t, x)
          /\ e' = [e EXCEPT ![t] = x]
    /\ EnterAsk(t, "fallback", "cohere", prompt[t])
    /\ UNCHANGED <<trackerVars, configVars, news, elapsed, primary, result, summary, batchVars,
                   op, received, tracked>>

\* lines 45, 47-61: Cohere's summary came; its sentiment is asked of Cohere.
FallbackReturns(t) ==
    /\ phase[t] = "fallback"
    /\ AskReturns(t)
    /\ summary' = [summary EXCEPT ![t] = output_text[t]]
    /\ EnterAsk(t, "sentiment", "cohere", SentimentPromptOf(output_text[t]))
    /\ UNCHANGED <<trackerVars, configVars, news, elapsed, primary, e, result, batchVars, op,
                   received, tracked>>

\* line 45: ask_cohere raised too, and summarize_article raises.
FallbackRaises(t) ==
    /\ phase[t] = "fallback"
    /\ \E x \in {"api", "budget"} :
          /\ AskRaises(t, x)
          /\ result' = [result EXCEPT ![t] = [kind |-> "raise", article |-> t, exc |-> x]]
    /\ Leave(t, "left")
    /\ UNCHANGED <<trackerVars, configVars, news, elapsed, primary, e, summary, batchVars, op,
                   asked, received, tracked>>

\* lines 61-62, 69-76: the sentiment came; the result is returned.
SentimentReturns(t) ==
    /\ phase[t] = "sentiment"
    /\ AskReturns(t)
    /\ result' = [result EXCEPT ![t] =
          [kind |-> "return", article |-> t, summary |-> summary[t],
           sentiment |-> output_text[t]]]
    /\ Leave(t, "left")
    /\ UNCHANGED <<trackerVars, configVars, news, elapsed, primary, e, summary, batchVars, op,
                   asked, received, tracked>>

\* lines 64-76: the sentiment call raised and the exception is caught as e; the
\* placeholder stands in.
SentimentRaises(t) ==
    /\ phase[t] = "sentiment"
    /\ \E x \in {"api", "budget"} :
          /\ AskRaises(t, x)
          /\ e' = [e EXCEPT ![t] = x]
    /\ result' = [result EXCEPT ![t] =
          [kind |-> "return", article |-> t, summary |-> summary[t],
           sentiment |-> SENTIMENT_PLACEHOLDER]]
    /\ Leave(t, "left")
    /\ UNCHANGED <<trackerVars, configVars, news, elapsed, primary, summary, batchVars, op,
                   asked, received, tracked>>

SummarizeStep(t) ==
    \/ SummaryReturns(t)
    \/ SummaryRaises(t)
    \/ FallbackReturns(t)
    \/ FallbackRaises(t)
    \/ SentimentReturns(t)
    \/ SentimentRaises(t)

\* ---------------------------------------------------- process_articles
\* lines 90-92: the loop reaches the next article.
SerialStart(t) ==
    /\ mode = "serial"
    /\ pc[t] = "idle"
    /\ \A u \in Tasks : u < t => Finished(u)
    /\ SummarizeArticle(t)
    /\ UNCHANGED <<trackerVars, configVars, news, elapsed, callerVars, batchVars, op,
                   received, tracked>>

\* lines 93-96: the result is appended, or the exception is printed and dropped.
SerialCollect(t) ==
    /\ mode = "serial"
    /\ pc[t] = "left"
    /\ IF result[t].kind = "return"
         THEN /\ results' = Append(results, result[t])
              /\ pc' = [pc EXCEPT ![t] = "done"]
         ELSE /\ UNCHANGED results
              /\ pc' = [pc EXCEPT ![t] = "failed"]
    /\ UNCHANGED <<trackerVars, configVars, news, elapsed, phase, prov, prompt, rem, input_tokens,
                   output_text, loaded, callerVars, mode, max_concurrent, semaphore,
                   gathered, returned, op, historyVars>>

\* line 98.
SerialReturn ==
    /\ mode = "serial"
    /\ ~returned
    /\ \A t \in Tasks : Finished(t)
    /\ returned' = TRUE
    /\ UNCHANGED <<trackerVars, configVars, news, elapsed, askVars, callerVars, mode,
                   max_concurrent, semaphore, gathered, results, op, historyVars>>

\* ---------------------------------------------- process_articles_async
\* The values of max_concurrent the model tries.
Caps == {1, 2}

\* lines 171-173, 156: the task takes a slot of the semaphore (asyncio wakes the
\* waiters in the order they came) and its summarize_article starts in a thread.
AsyncStartWithoutSlot(t) ==
    /\ mode = "async"
    /\ pc[t] = "idle"
    /\ \A u \in Tasks : u < t => pc[u] # "idle"
    /\ semaphore' = semaphore - 1
    /\ SummarizeArticle(t)
    /\ UNCHANGED <<trackerVars, configVars, news, elapsed, callerVars, mode, max_concurrent,
                   gathered, results, returned, op, received, tracked>>

AsyncStart(t) ==
    /\ mode = "async"
    /\ pc[t] = "idle"
    /\ \A u \in Tasks : u < t => pc[u] # "idle"
    /\ semaphore > 0
    /\ semaphore' = semaphore - 1
    /\ SummarizeArticle(t)
    /\ UNCHANGED <<trackerVars, configVars, news, elapsed, callerVars, mode, max_concurrent,
                   gathered, results, returned, op, received, tracked>>

\* lines 172-173, 176: the thread is over; the slot is given back and gather keeps
\* the result, or the exception (return_exceptions=True).
AsyncFinish(t) ==
    /\ mode = "async"
    /\ pc[t] = "left"
    /\ semaphore' = semaphore + 1
    /\ gathered' = [gathered EXCEPT ![t] = result[t]]
    /\ pc' = [pc EXCEPT ![t] = IF result[t].kind = "return" THEN "done" ELSE "failed"]
    /\ UNCHANGED <<trackerVars, configVars, news, elapsed, phase, prov, prompt, rem, input_tokens,
                   output_text, loaded, callerVars, mode, max_concurrent, results,
                   returned, op, historyVars>>

\* lines 176-181: gather is over; the exceptions are filtered out, in task order.
RECURSIVE ValidResultsUnfiltered(_, _)
ValidResultsUnfiltered(slots, t) ==
    IF t > NumTasks THEN <<>> ELSE <<slots[t]>> \o ValidResultsUnfiltered(slots, t + 1)

RECURSIVE ValidResults(_, _)
ValidResults(slots, t) ==
    IF t > NumTasks THEN <<>>
    ELSE IF slots[t].kind = "return"
           THEN <<slots[t]>> \o ValidResults(slots, t + 1)
           ELSE ValidResults(slots, t + 1)

AsyncReturn ==
    /\ mode = "async"
    /\ ~returned
    /\ \A t \in Tasks : Finished(t)
    /\ results' = ValidResults(gathered, 1)
    /\ returned' = TRUE
    /\ UNCHANGED <<trackerVars, configVars, news, elapsed, askVars, callerVars, mode,
                   max_concurrent, semaphore, gathered, op, historyVars>>

InitBatch ==
    /\ InitObjects
    /\ quantum = BatchQuantum
    /\ \/ /\ mode = "serial"
          /\ max_concurrent = 0
       \/ /\ mode = "async"
          /\ max_concurrent \in Caps
    /\ semaphore = max_concurrent

NextBatch ==
    \/ \E t \in Tasks : SerialStart(t)
    \/ \E t \in Tasks : AsyncStart(t)
    \/ \E t \in Tasks : AskStep(t)
    \/ \E t \in Tasks : SummarizeStep(t)
    \/ \E t \in Tasks : SerialCollect(t)
    \/ \E t \in Tasks : AsyncFinish(t)
    \/ SerialReturn
    \/ AsyncReturn
    \/ Tick

SpecBatch == InitBatch /\ [][NextBatch]_vars

\* The threads and the event loop keep running: a step that can be taken is taken.
SpecBatchFair == InitBatch /\ [][NextBatch]_vars /\ WF_vars(NextBatch)

\* ------------------------------------------ news_api.py: fetch_top_headlines
\* What requests.get may do: raise a RequestException (no connection, timeout), or
\* return a response with a status and a body.  A body is not JSON at all, or a
\* JSON object with a status and some articles.
NewsStatuses == {200, 404, 500}
NewsBodies ==
    {[json |-> FALSE, status |-> "none", articles |-> 0]}
    \cup {[json |-> TRUE, status |-> "ok", articles |-> n] : n \in 0..2}
    \cup {[json |-> TRUE, status |-> "error", articles |-> 0]}
NewsResponses ==
    {[kind |-> "exception", status |-> 0, body |-> [json |-> FALSE, status |-> "none", articles |-> 0]]}
    \cup {[kind |-> "http", status |-> st, body |-> b] : st \in NewsStatuses, b \in NewsBodies}

\* lines 57-66: one processed article per article of the body.
ProcessedArticles(n) == [i \in 1..n |-> [title |-> i]]

\* lines 46-73: what fetch_top_headlines does with the response.  The handler of
\* line 71 catches requests.exceptions.RequestException only.  response.json()
\* raises a JSONDecodeError that is a RequestException in requests >= 2.27 and a
\* plain ValueError before; no version is pinned, so both outcomes are possible.
FetchOutcomes(resp) ==
    IF resp.kind = "exception"
      THEN {[kind |-> "return", articles |-> <<>>]}                  \* line 47 raises
    ELSE IF resp.status >= 400
      THEN {[kind |-> "return", articles |-> <<>>]}                  \* line 48 raises
    ELSE IF ~resp.body.json
      THEN {[kind |-> "return", articles |-> <<>>],                  \* line 49 raises
            [kind |-> "raise", exc |-> "ValueError"]}
    ELSE IF resp.body.status # "ok"
      THEN {[kind |-> "raise", exc |-> "Exception"]}                 \* line 52 raises
    ELSE {[kind |-> "return", articles |-> ProcessedArticles(resp.body.articles)]}

\* lines 36, 17-21: fetch_top_headlines is called; _wait_if_needed reads the clock
\* and goes to sleep if min_interval has not passed.
FetchTopHeadlines ==
    /\ news.pc = "idle"
    /\ news.calls < MaxFetches
    /\ news' = [news EXCEPT !.pc = "sleep",
                            !.rem = SleepTime(news.elapsed, min_interval),
                            !.calls = @ + 1]
    /\ UNCHANGED <<trackerVars, configVars, elapsed, askVars, callerVars, batchVars, op,
                   historyVars>>

\* line 22: the sleep is over; self.last_call_time = time.time().
FetchStamp ==
    /\ news.pc = "sleep"
    /\ news.rem = 0
    /\ news' = [news EXCEPT !.pc = "get", !.elapsed = 0]
    /\ UNCHANGED <<trackerVars, configVars, elapsed, askVars, callerVars, batchVars, op,
                   historyVars>>

\* lines 46-73: requests.get is over and fetch_top_headlines returns or raises.
FetchResponds ==
    /\ news.pc = "get"
    /\ \E resp \in NewsResponses : \E out \in FetchOutcomes(resp) :
          op' = [name |-> "fetch_top_headlines", n |-> 1 - op.n,
                 response |-> resp, outcome |-> out]
    /\ news' = [news EXCEPT !.pc = "idle"]
    /\ UNCHANGED <<trackerVars, configVars, elapsed, askVars, callerVars, batchVars,
                   historyVars>>

\* Time passes.
NewsTick ==
    /\ news' = [news EXCEPT !.elapsed = Min(@ + 1, min_interval),
                            !.rem = Max(@ - 1, 0)]
    /\ news' # news
    /\ UNCHANGED <<trackerVars, configVars, elapsed, askVars, callerVars, batchVars, op,
                   historyVars>>

InitFetch ==
    /\ InitObjects
    /\ quantum = 1
    /\ mode = "fetch"
    /\ max_concurrent = 0
    /\ semaphore = 0

NextFetch ==
    \/ FetchTopHeadlines
    \/ FetchStamp
    \/ FetchResponds
    \/ NewsTick

SpecFetch == InitFetch /\ [][NextFetch]_vars

\* ================================================================ claims
\* C1: for every sequence of track_request calls made by a single caller, after
\* each call total_cost is the sum of the "cost" fields of the entries of
\* requests, and each call has appended exactly one entry.
C1_TotalIsSumOfCosts ==
    /\ total_cost = SumField(requests, "cost")
    /\ Len(requests) = tracked

C1_Witness ==
    /\ op.name = "track_request"
    /\ Len(requests) = 3
    /\ requests[1].cost > 0
    /\ requests[2].cost > requests[1].cost
    /\ requests[3].model = "some-other-model"

\* What a direct check_budget call did, against the total it was called on.
C5_Outcome ==
    op.name = "check_budget" =>
        /\ op.raised <=> total_cost >= op.ceiling
        /\ op.warned <=> (10 * total_cost >= 9 * op.ceiling /\ total_cost < op.ceiling)

\* C5: check_budget(ceiling) raises exactly when total_cost >= ceiling; it prints
\* the warning exactly when 0.9 * ceiling <= total_cost < ceiling; and it changes
\* neither total_cost nor requests.
C5_CheckBudget ==
    /\ []C5_Outcome
    /\ [][(op'.name = "check_budget" /\ op'.n # op.n) =>
             (total_cost' = total_cost /\ requests' = requests)]_vars

C5_Witness ==
    /\ op.name = "check_budget"
    /\ op.ceiling = 1000
    /\ total_cost = 900
    /\ op.warned
    /\ ~op.raised

\* C2: in ask_with_fallback a budget-exceeded failure of the primary's call is not
\* caught: the secondary provider is never asked for that request.
C2_BudgetFailureNotCaught ==
    \A t \in Tasks :
        (mode = "fallback" /\ e[t] = "budget") => asked[t] = <<primary[t]>>

\* C3: whichever provider is primary, when its call fails and the secondary's call
\* succeeds, ask_with_fallback returns the secondary's text and names the secondary.
C3_FallbackReturnsSecondary ==
    \A t \in Tasks :
        (mode = "fallback" /\ pc[t] = "done" /\ Len(asked[t]) = 2) =>
            /\ asked[t] = <<primary[t], Other(primary[t])>>
            /\ result[t].kind = "return"
            /\ result[t].provider = Other(primary[t])
            /\ result[t].response \in Responses(Other(primary[t]))

C3_Witness ==
    /\ pc[1] = "done" /\ primary[1] = "openai" /\ result[1].provider = "cohere"
    /\ pc[2] = "done" /\ primary[2] = "cohere" /\ result[2].provider = "openai"

\* Callers between the receipt of a response and the end of track_request.
Recording == Cardinality({t \in Tasks : pc[t] \in {"track", "store"}})

RECURSIVE ReceivedUpTo(_)
ReceivedUpTo(t) == IF t = 0 THEN 0 ELSE received[t] + ReceivedUpTo(t - 1)

\* C4: when both providers' calls fail, ask_with_fallback raises "All providers
\* failed", and a call whose response never came leaves the cost tracker alone:
\* the entries of requests are those of the responses received.
C4_AllProvidersFailed ==
    /\ \A t \in Tasks :
          (mode = "fallback" /\ pc[t] = "failed") =>
              /\ asked[t] = <<primary[t], Other(primary[t])>>
              /\ result[t].kind = "raise"
              /\ result[t].message = "All providers failed"
    /\ Len(requests) + Recording = ReceivedUpTo(NumTasks)
    /\ total_cost = SumField(requests, "cost")

C4_Witness ==
    /\ pc[1] = "failed"
    /\ received[1] = 0
    /\ requests = <<>>
    /\ total_cost = 0

\* C7: with a single caller, two consecutive grants of a provider's rate limiter
\* are at least that provider's interval apart; the limiter only delays (the
\* sleep it asks for is never negative, so time.sleep never raises).
C7_GrantsSpaced ==
    /\ [](\A t \in Tasks : rem[t] >= 0)
    /\ [][\A t \in Tasks :
            (pc[t] = "stamp" /\ pc'[t] = "call") =>
                elapsed[prov[t]] >= Interval(prov[t])]_vars

C7_Witness ==
    /\ asked[1] = <<"cohere">>
    /\ pc[1] = "done"
    /\ pc[2] = "call"
    /\ prov[2] = "cohere"
    /\ elapsed["cohere"] = 0

\* Positions of the returned list that hold article t's result.
ResultsOf(t) == {i \in 1..Len(results) : results[i].article = t}

\* C6: a batch, serial or concurrent, returns exactly one result for each article
\* whose summarize_article returned and none for one whose summarize_article
\* raised, and every article is processed whatever became of the others.
C6_PartialResults ==
    returned =>
        \A t \in Tasks :
            /\ result[t].kind \in {"return", "raise"}
            /\ result[t].kind = "return" =>
                  /\ Cardinality(ResultsOf(t)) = 1
                  /\ \A i \in ResultsOf(t) : results[i] = result[t]
            /\ result[t].kind = "raise" => ResultsOf(t) = {}

C6_Witness ==
    /\ returned
    /\ mode = "async"
    /\ result[1].kind = "raise"
    /\ result[2].kind = "return"
    /\ Len(results) = 1

\* C8: in concurrent mode the updates of the running total are serialized: once
\* all workers are over, total_cost is the sum of the recorded costs and there is
\* one entry per track_request call.
C8_NoLostUpdate ==
    (mode = "async" /\ \A t \in Tasks : Finished(t)) =>
        /\ total_cost = SumField(requests, "cost")
        /\ Len(requests) = tracked

\* C9: in concurrent mode two grants of a provider's rate limiter are still at
\* least the provider's interval apart, however the workers interleave.
C9_ConcurrentGrantsSpaced ==
    [][\A t \in Tasks :
          (mode = "async" /\ pc[t] = "stamp" /\ pc'[t] = "call") =>
              elapsed[prov[t]] >= Interval(prov[t])]_vars

\* Articles whose summarize_article has started and is not over.
InFlight == {t \in Tasks : pc[t] \in {"wait", "stamp", "call", "track", "store", "check"}}

\* C10: in process_articles_async at most max_concurrent articles are in flight
\* at any instant, an article starts only while fewer than max_concurrent are in
\* flight, and every article is started in the end.
C10_ConcurrencyCap ==
    /\ [](mode = "async" => Cardinality(InFlight) <= max_concurrent)
    /\ [][\A t \in Tasks :
            (mode = "async" /\ pc[t] = "idle" /\ pc'[t] # "idle") =>
                Cardinality(InFlight) < max_concurrent]_vars
    /\ <>(\A t \in Tasks : pc[t] # "idle")

C10_Witness ==
    /\ mode = "async"
    /\ max_concurrent = 1
    /\ pc[1] = "failed"
    /\ pc[2] \in {"wait", "stamp", "call"}

\* The provider whose text became the summary of an article whose sentiment is asked.
SummaryProvider(t) == IF Len(asked[t]) = 2 THEN "openai" ELSE "cohere"

\* The sentiment call of article t fails in this step (its API call raises, or its
\* check_budget does) and summarize_article is over.
SentimentFails(t) ==
    /\ phase[t] = "sentiment"
    /\ \/ pc[t] = "call"
       \/ pc[t] = "check" /\ total_cost >= daily_budget
    /\ pc'[t] = "left"

\* C11: in summarize_article a failure of the sentiment call yields a result (the
\* article is not failed) whose sentiment is the fixed placeholder string and whose
\* summary is the text obtained in step 1; when the summary fails on both providers
\* summarize_article raises, with no result and no sentiment call made.
C11_SentimentDegrades ==
    /\ [][\A t \in Tasks :
            SentimentFails(t) =>
                /\ result'[t].kind = "return"
                /\ result'[t].sentiment = "Unable to analyze sentiment"
                /\ result'[t].summary = summary[t]
                /\ summary[t] \in Responses(SummaryProvider(t))]_vars
    /\ [][\A t \in Tasks :
            (phase[t] = "fallback" /\ pc[t] \in {"call", "check"} /\ pc'[t] # pc[t]) =>
                LET raises == /\ pc'[t] = "left"
                              /\ result'[t].kind = "raise"
                              /\ asked'[t] = <<"openai", "cohere">>
                IN  IF pc[t] = "call" THEN pc'[t] = "track" \/ raises
                    ELSE IF total_cost >= daily_budget THEN raises
                    ELSE phase'[t] = "sentiment"]_vars
    /\ [](\A t \in Tasks :
            (mode \in {"serial", "async"} /\ result[t].kind = "raise") =>
                /\ asked[t] = <<"openai", "cohere">>
                /\ summary[t] = NoText
                /\ phase[t] = "none"
                /\ pc[t] \in {"left", "failed"})

C11_Witness ==
    /\ result[1].kind = "return"
    /\ result[1].sentiment = "Unable to analyze sentiment"
    /\ result[1].summary = "abcd"
    /\ asked[1] = <<"openai", "cohere", "cohere">>
    /\ result[2].kind = "raise"
    /\ asked[2] = <<"openai", "cohere">>

\* A provider call of caller t ends on a budget failure in this step.
BudgetFails(t) ==
    /\ pc[t] = "check"
    /\ total_cost >= daily_budget
    /\ pc'[t] # pc[t]

\* Some provider call of the run has ended on a budget failure: one caught as e
\* (lines 41, 64), or one that left summarize_article (line 45).
BudgetFailureSeen ==
    \E u \in Tasks :
        \/ e[u] = "budget"
        \/ result[u].kind = "raise" /\ result[u].exc = "budget"

\* C12: once a provider call has raised a budget-exceeded failure no further
\* provider call is attempted in the run: not the fallback summary call, not the
\* sentiment call of the same article, not any call for a later article.
C12_NoCallAfterBudgetFailure ==
    [][\A t \in Tasks :
          (BudgetFailureSeen \/ \E u \in Tasks : BudgetFails(u)) =>
              asked'[t] = asked[t]]_vars

\* The tokens of kind f recorded by the first n entries of requests.
RECURSIVE RecordedTokens(_, _)
RecordedTokens(f, n) == IF n = 0 THEN 0 ELSE RecordedTokens(f, n - 1) + requests[n][f]

\* What the last get_summary returned, against the tracker it was called on.
C13_Returned ==
    op.name = "get_summary" =>
        /\ op.ret.total_requests = tracked
        /\ op.ret.total_cost = total_cost
        /\ op.ret.total_input_tokens = RecordedTokens("input_tokens", Len(requests))
        /\ op.ret.total_output_tokens = RecordedTokens("output_tokens", Len(requests))
        /\ op.ret.average_cost.num = total_cost
        /\ op.ret.average_cost.den = (IF tracked >= 1 THEN tracked ELSE 1)
        /\ tracked = 0 => op.ret.average_cost = [num |-> 0, den |-> 1]

\* C13: get_summary returns total_requests = the number of track_request calls,
\* the token totals = the sums of the recorded token counts and average_cost =
\* total_cost / max(total_requests, 1) (0 / 1 on an empty tracker: no division by
\* zero), and it changes neither total_cost nor requests.
C13_GetSummary ==
    /\ []C13_Returned
    /\ [][(op'.name = "get_summary" /\ op'.n # op.n) =>
             (total_cost' = total_cost /\ requests' = requests)]_vars

C13_Witness ==
    /\ op.name = "get_summary"
    /\ tracked = 3
    /\ op.ret.total_input_tokens = 4
    /\ op.ret.total_output_tokens = 2
    /\ op.ret.average_cost.den = 3
    /\ op.ret.average_cost.num > 0

\* The fetch failed: no response, a status outside 2xx, a body that is not JSON,
\* or a JSON body whose status is not "ok".
FailedFetch(resp) ==
    \/ resp.kind = "exception"
    \/ resp.status < 200 \/ resp.status >= 300
    \/ ~resp.body.json
    \/ resp.body.status # "ok"

\* C14: fetch_top_headlines returns an empty list, and raises nothing, for every
\* failed fetch: a network error, a non-2xx status, a malformed body, a body whose
\* status is not "ok".
C14_FailedFetchReturnsEmpty ==
    (op.name = "fetch_top_headlines" /\ FailedFetch(op.response)) =>
        op.outcome = [kind |-> "return", articles |-> <<>>]

\* The moves of one provider call, in the order of the code: the limiter's read and
\* sleep, its stamp, the API call, track_request (read, then write and append),
\* check_budget; the call is left from the API call (it raised) or from
\* check_budget (it raised or returned), for the next call or for the caller's end.
CallOrder ==
    {<<"idle", "wait">>, <<"wait", "stamp">>, <<"stamp", "call">>, <<"call", "track">>,
     <<"track", "store">>, <<"store", "check">>,
     <<"call", "wait">>, <<"call", "failed">>,
     <<"check", "wait">>, <<"check", "done">>, <<"check", "failed">>}

\* C15: each provider call goes through the rate limiter's wait, the API call, the
\* recording of the cost and the budget check, in that order; the cost is recorded
\* only once the response is received and the budget is checked only once the cost
\* is recorded.
C15_CallStepsInOrder ==
    /\ [][\A t \in Tasks : pc'[t] # pc[t] => <<pc[t], pc'[t]>> \in CallOrder]_vars
    /\ [][\A t \in Tasks :
            (pc[t] = "stamp" /\ pc'[t] = "call") => elapsed'[prov[t]] = 0]_vars
    /\ [][requests' # requests =>
            \E t \in Tasks :
                /\ pc[t] = "store"
                /\ output_text[t] \in Responses(prov[t])
                /\ requests' = Append(requests, requests'[Len(requests')])
                /\ requests'[Len(requests')].provider = prov[t]
                /\ requests'[Len(requests')].output_tokens = Len(output_text[t])]_vars
    /\ [](\A t \in Tasks :
            /\ pc[t] \in {"wait", "stamp", "call"} => output_text[t] = NoText
            /\ pc[t] = "check" =>
                  /\ Len(requests) = ReceivedUpTo(NumTasks)
                  /\ requests[Len(requests)].provider = prov[t]
                  /\ total_cost = SumField(requests, "cost"))

C15_Witness ==
    /\ pc[2] = "check"
    /\ prov[2] = "cohere"
    /\ asked[2] = <<"openai", "cohere">>
    /\ Len(requests) = 2
    /\ requests[2].provider = "cohere"

\* C16: a provider call is never blocked before it reaches the provider; when its
\* response is received its cost is recorded exactly once, even if that brings
\* total_cost to or above the ceiling; the same call then fails on the budget (and
\* returns otherwise); the records are as many as the responses received.
C16_RecordThenFail ==
    /\ [][\A t \in Tasks :
            (pc[t] \in {"wait", "stamp"} /\ pc'[t] # pc[t]) =>
                /\ pc'[t] = (IF pc[t] = "wait" THEN "stamp" ELSE "call")
                /\ trackerVars' = trackerVars]_vars
    /\ [][\A t \in Tasks :
            (pc[t] = "store" /\ pc'[t] # pc[t]) =>
                LET cost == Cost(ModelOf(prov[t]), Len(prompt[t]), Len(output_text[t]))
                IN  /\ pc'[t] = "check"
                    /\ Len(requests') = Len(requests) + 1
                    /\ requests'[Len(requests')].cost = cost
                    /\ total_cost' = total_cost + cost]_vars
    /\ [][\A t \in Tasks :
            (pc[t] = "check" /\ pc'[t] # pc[t]) =>
                /\ trackerVars' = trackerVars
                /\ IF total_cost >= daily_budget
                     THEN IF phase[t] = "primary" THEN e'[t] = "budget"
                          ELSE result'[t].kind = "raise"
                     ELSE /\ result'[t].kind = "return"
                          /\ result'[t].response = output_text[t]]_vars
    /\ [](Len(requests) + Recording = ReceivedUpTo(NumTasks))

C16_Witness ==
    /\ daily_budget = 1000
    /\ pc[2] = "check"
    /\ phase[2] = "primary"
    /\ Len(requests) = 2
    /\ total_cost = 1200
    /\ total_cost - requests[2].cost < daily_budget

\* C17: for one ask_with_fallback request, whatever the outcomes, the primary is
\* called exactly once and the secondary at most once, the secondary only after
\* the primary's call has failed; no provider is called twice for the request.
C17_OneAttemptPerProvider ==
    /\ [](\A t \in Tasks :
            mode = "fallback" =>
                /\ Len(asked[t]) <= 2
                /\ pc[t] = "idle" <=> asked[t] = <<>>
                /\ Len(asked[t]) >= 1 => asked[t][1] = primary[t]
                /\ Len(asked[t]) = 2 =>
                      /\ asked[t][2] # asked[t][1]
                      /\ e[t] \in {"api", "budget"})
    /\ [][\A t \in Tasks :
            Len(asked'[t]) > Len(asked[t]) =>
                \/ pc[t] = "idle"
                \/ /\ phase[t] = "primary"
                   /\ \/ pc[t] = "call"
                      \/ pc[t] = "check" /\ total_cost >= daily_budget]_vars

C17_Witness ==
    /\ pc[1] = "failed"
    /\ asked[1] = <<"cohere", "openai">>
    /\ pc[2] = "done"
    /\ asked[2] = <<"openai">>

\* C18: within one article, serial or concurrent, the sentiment call is issued only
\* after the article's summary call has returned (on OpenAI or on the fallback),
\* and its prompt embeds the text that call returned; calls of different articles
\* are in no imposed order.
C18_SentimentAfterSummary ==
    /\ [][\A t \in Tasks :
            (phase'[t] = "sentiment" /\ phase[t] # "sentiment") =>
                /\ phase[t] \in {"summary", "fallback"}
                /\ pc[t] = "check"
                /\ total_cost < daily_budget
                /\ output_text[t] \in Responses(prov[t])
                /\ summary'[t] = output_text[t]
                /\ asked'[t] = Append(asked[t], "cohere")]_vars
    /\ [](\A t \in Tasks :
            phase[t] = "sentiment" =>
                /\ summary[t] \in Responses(SummaryProvider(t))
                /\ prompt[t] = "A:" \o summary[t]
                /\ Len(prompt[t]) = 2 + Len(summary[t]))
    /\ [](\A t \in Tasks :
            (mode \in {"serial", "async"} /\ summary[t] = NoText) =>
                phase[t] # "sentiment" /\ Len(asked[t]) <= 2)

C18_Witness ==
    /\ mode = "async"
    /\ phase[1] = "summary"
    /\ phase[2] = "sentiment"
    /\ summary[2] = "abcd"
    /\ pc[2] = "call"

====
